---------------------------- MODULE Spec2Model ----------------------------
(***************************************************************************)
(* A model of the voice calendar agent: the calendar client                *)
(* (src/calendar_tools.py) over a model of the remote calendar provider,   *)
(* and the tool-calling loop (src/agent.py).                               *)
(*                                                                         *)
(* Time.  An instant is a number of minutes since 2024-11-02T00:00Z.  A    *)
(* naive datetime (Python datetime without tzinfo) is a wall-clock number  *)
(* of minutes since 2024-11-02 00:00.  A dateTime string is a record       *)
(* [wall, off, aware]: "2024-11-03T00:30:00" is [wall |-> 1470, off |-> 0, *)
(* aware |-> FALSE], "2024-11-03T00:30:00-04:00" is [wall |-> 1470,        *)
(* off |-> -240, aware |-> TRUE].  The modelled dates surround the end of  *)
(* daylight saving time in America/New_York (2024-11-03 02:00 EDT).        *)
(***************************************************************************)
EXTENDS Integers, Sequences, FiniteSets, TLC

VARIABLES
    events,      \* the provider's calendar 'primary': a set of stored events
    nextId,      \* the next event identifier the provider hands out
    tz,          \* the time zone of the machine the program runs on
    last,        \* the last call of a calendar function: what it was given and did
    calls,       \* how many calendar functions have been called
    pc,          \* chat_with_agent: where the call is
    iterations,  \* chat_with_agent: iterations (agent.py:157)
    messages,    \* chat_with_agent: the transcript (agent.py:145)
    response,    \* chat_with_agent: the model's latest response
    tool_result, \* chat_with_agent: what process_tool_call returned last
    sent,        \* chat_with_agent: the latest request sent to the model
    final        \* chat_with_agent: what the call returned or raised

vars == <<events, nextId, tz, last, calls, pc, iterations, messages,
          response, tool_result, sent, final>>

calVars == <<events, nextId, last, calls>>
agentVars == <<pc, iterations, messages, response, tool_result, sent, final>>

---------------------------------------------------------------------------
(* Bounds of the model *)

\* events the provider ever creates
MaxEvents == 2
\* calendar functions called in one behaviour
MaxCalls == 3
\* iterations of the tool loop followed in one call of chat_with_agent
MaxIterations == 2
\* the round count the specification asks the tool loop to stop at
MaxRounds == 10
\* the machine's current date, in days after 2024-11-02
Today == 0

---------------------------------------------------------------------------
(* Dates, times and time zones *)

MinutesPerDay == 1440
MinutesPerHour == 60
\* UTC offsets of America/New_York: daylight time and standard time
EDT == -240
EST == -300

\* 2024-11-03T06:00Z: America/New_York leaves daylight saving time
FallBack == MinutesPerDay + 6 * MinutesPerHour

SystemZones == {"America/New_York", "UTC"}

\* The UTC offset a zone has at an instant.
OffsetAt(zone, instant) ==
    IF zone = "America/New_York"
    THEN IF instant < FallBack THEN EDT ELSE EST
    ELSE 0

\* The instant a wall-clock time names in a zone; the repeated hour of the
\* fall-back day reads as its first occurrence (fold = 0).
WallToInstant(zone, wall) ==
    IF zone = "America/New_York"
    THEN IF wall - EDT < FallBack THEN wall - EDT ELSE wall - EST
    ELSE wall

Naive(wall) == [wall |-> wall, off |-> 0, aware |-> FALSE]

\* An instant written with the offset of a zone (RFC 3339).
Rfc3339(instant, zone) ==
    [wall |-> instant + OffsetAt(zone, instant),
     off |-> OffsetAt(zone, instant), aware |-> TRUE]

\* dateutil's parser.parse of an RFC 3339 string with offset, as an instant.
parse(dt) == dt.wall - dt.off

\* datetime.astimezone() of a naive datetime: the machine's zone is attached.
astimezone(zone, wall) == Rfc3339(WallToInstant(zone, wall), zone)

DateStrings == {"2024-11-02", "2024-11-03"}
TimeStrings == {"00:30", "23:00"}

\* strptime(date, "%Y-%m-%d"): the day index, or -1 for a ValueError.
ParseDate(s) ==
    CASE s = "2024-11-02" -> 0
      [] s = "2024-11-03" -> 1
      [] OTHER -> -1

\* strptime(time, "%H:%M"): minutes after midnight, or -1 for a ValueError.
ParseTime(s) ==
    CASE s = "00:30" -> 30
      [] s = "23:00" -> 23 * MinutesPerHour
      [] OTHER -> -1

\* datetime.strptime(f"{date} {time}", "%Y-%m-%d %H:%M")
strptime(date, time) ==
    IF ParseDate(date) < 0 \/ ParseTime(time) < 0
    THEN [ok |-> FALSE, wall |-> 0]
    ELSE [ok |-> TRUE, wall |-> ParseDate(date) * MinutesPerDay + ParseTime(time)]

\* str.lower() on the titles of the model
Lower(s) ==
    CASE s = "Lunch" -> "lunch"
      [] s = "LUNCH" -> "lunch"
      [] s = "Gym" -> "gym"
      [] OTHER -> s

---------------------------------------------------------------------------
(* The remote calendar provider (Google Calendar API v3, calendar 'primary') *)

\* the request the provider fails on in one call of a calendar function
FailPoints == {"none", "insert", "list", "get", "update", "delete"}
\* how events.list orders events that start at the same instant
TieBreaks == {"asc", "desc"}

\* The instant of an event's start or end as the provider reads it: a
\* dateTime with an offset names it; one without is read in timeZone.
ToInstant(t) ==
    IF t.dateTime.aware THEN parse(t.dateTime)
    ELSE WallToInstant(t.timeZone, t.dateTime.wall)

\* The event resource the provider returns for a stored event.
Resource(e) ==
    [id |-> e.id, summary |-> e.summary, description |-> e.description,
     start |-> [dateTime |-> Rfc3339(e.start, e.timeZone), timeZone |-> e.timeZone],
     end |-> [dateTime |-> Rfc3339(e.end, e.timeZone), timeZone |-> e.timeZone],
     htmlLink |-> <<"https://www.google.com/calendar/event?eid=", e.id>>]

\* What the provider stores for a request body.
Stored(id, body) ==
    [id |-> id, summary |-> body.summary, description |-> body.description,
     start |-> ToInstant(body.start), end |-> ToInstant(body.end),
     timeZone |-> body.start.timeZone]

\* events().insert(calendarId='primary', body=event).execute()
Insert(cal, body, env) ==
    IF env.fail = "insert"
    THEN [ok |-> FALSE, err |-> "ProviderError", cal |-> cal]
    ELSE [ok |-> TRUE,
          cal |-> [events |-> cal.events \cup {Stored(cal.nextId, body)},
                   nextId |-> cal.nextId + 1],
          res |-> Resource(Stored(cal.nextId, body))]

Before(e, f, tb) ==
    \/ e.start < f.start
    \/ e.start = f.start /\ (IF tb = "asc" THEN e.id <= f.id ELSE e.id >= f.id)

\* orderBy='startTime': ascending by start
RECURSIVE SortByStart(_, _)
SortByStart(S, tb) ==
    IF S = {} THEN <<>>
    ELSE LET m == CHOOSE e \in S : \A f \in S : Before(e, f, tb)
         IN <<m>> \o SortByStart(S \ {m}, tb)

\* The events events().list selects: timeMin is the lower bound (exclusive)
\* of an event's end time, timeMax the upper bound (exclusive) of its start.
InQuery(e, timeMin, timeMax) ==
    e.end > parse(timeMin) /\ e.start < parse(timeMax)

\* events().list(calendarId='primary', timeMin, timeMax, singleEvents=True,
\*               orderBy='startTime').execute()
List(cal, timeMin, timeMax, env) ==
    IF env.fail = "list"
    THEN [ok |-> FALSE, err |-> "ProviderError"]
    ELSE LET sel == SortByStart({e \in cal.events : InQuery(e, timeMin, timeMax)}, env.tb)
         IN [ok |-> TRUE, items |-> [i \in 1..Len(sel) |-> Resource(sel[i])]]

\* events().get(calendarId='primary', eventId=event_id).execute()
Get(cal, event_id, env) ==
    IF env.fail = "get" THEN [ok |-> FALSE, err |-> "ProviderError"]
    ELSE IF \A e \in cal.events : e.id # event_id
    THEN [ok |-> FALSE, err |-> "NotFound"]
    ELSE [ok |-> TRUE, res |-> Resource(CHOOSE e \in cal.events : e.id = event_id)]

\* events().update(calendarId='primary', eventId=event_id, body=event).execute()
Update(cal, event_id, body, env) ==
    IF env.fail = "update" THEN [ok |-> FALSE, err |-> "ProviderError", cal |-> cal]
    ELSE IF \A e \in cal.events : e.id # event_id
    THEN [ok |-> FALSE, err |-> "NotFound", cal |-> cal]
    ELSE [ok |-> TRUE,
          cal |-> [cal EXCEPT !.events =
                      {e \in cal.events : e.id # event_id} \cup {Stored(event_id, body)}],
          res |-> Resource(Stored(event_id, body))]

\* events().delete(calendarId='primary', eventId=event_id).execute()
Delete(cal, event_id, env) ==
    IF env.fail = "delete" THEN [ok |-> FALSE, err |-> "ProviderError", cal |-> cal]
    ELSE IF \A e \in cal.events : e.id # event_id
    THEN [ok |-> FALSE, err |-> "NotFound", cal |-> cal]
    ELSE [ok |-> TRUE,
          cal |-> [cal EXCEPT !.events = {e \in cal.events : e.id # event_id}]]

---------------------------------------------------------------------------
(* The calendar client, src/calendar_tools.py.  A function is called with   *)
(* keyword arguments kw (a record; a missing key takes the default of the   *)
(* signature) and gives the calendar after the call, what the call returned *)
(* or raised, and the requests it sent to the provider.                     *)

DefaultDuration == 60
DefaultDaysAhead == 1

Has(kw, k) == k \in DOMAIN kw

Return(cal, val, req) == [cal |-> cal, kind |-> "return", val |-> val, req |-> req]
Raise(cal, err, req) == [cal |-> cal, kind |-> "raise", err |-> err, req |-> req]

\* lines 91-100 of create_event: the insert request and what is returned
Created(cal, created) ==
    IF ~created.ok THEN Raise(cal, created.err, <<"insert">>)
    ELSE Return(created.cal,
                [id |-> created.res.id, title |-> created.res.summary,
                 start |-> created.res.start.dateTime, link |-> created.res.htmlLink],
                <<"insert">>)

\* the event create_event builds: the start is date and time without an
\* offset, the end duration_minutes later on the same clock
NewEvent(title, description, start_time, duration_minutes) ==
    [summary |-> title, description |-> description,
     start |-> [dateTime |-> Naive(start_time), timeZone |-> "America/New_York"],
     end |-> [dateTime |-> Naive(start_time + duration_minutes),
              timeZone |-> "America/New_York"]]

create_event(cal, kw, env) ==
    IF ~({"title", "date", "time"} \subseteq DOMAIN kw)
    THEN Raise(cal, "TypeError", <<>>)
    ELSE IF ~strptime(kw.date, kw.time).ok THEN Raise(cal, "ValueError", <<>>)
    ELSE Created(cal,
            Insert(cal,
                   NewEvent(kw.title,
                            IF Has(kw, "description") THEN kw.description ELSE "",
                            strptime(kw.date, kw.time).wall,
                            IF Has(kw, "duration_minutes") THEN kw.duration_minutes
                            ELSE DefaultDuration),
                   env))

\* lines 146-157 of list_events: each event as id, title, start, description
Project(items) ==
    [i \in 1..Len(items) |->
        [id |-> items[i].id, title |-> items[i].summary,
         start |-> items[i].start.dateTime, description |-> items[i].description]]

\* the day list_events starts at: today for "today" or no date; -1 for a
\* date strptime refuses
StartDay(kw) ==
    IF ~Has(kw, "date") \/ kw.date = "today" THEN Today ELSE ParseDate(kw.date)

\* EndDate with days_ahead left out: the query always ends a day on
EndDate_oneDay(start_date, days_ahead) == start_date + MinutesPerDay

\* end_date = start_date + timedelta(days=days_ahead)
EndDate(start_date, days_ahead) == start_date + days_ahead * MinutesPerDay

Listed(cal, events_result) ==
    IF ~events_result.ok THEN Raise(cal, events_result.err, <<"list">>)
    ELSE Return(cal, Project(events_result.items), <<"list">>)

list_events(cal, kw, env) ==
    IF StartDay(kw) < 0 THEN Raise(cal, "ValueError", <<>>)
    ELSE Listed(cal,
            List(cal,
                 astimezone(env.tz, StartDay(kw) * MinutesPerDay),
                 astimezone(env.tz,
                            EndDate(StartDay(kw) * MinutesPerDay,
                                    IF Has(kw, "days_ahead") THEN kw.days_ahead
                                    ELSE DefaultDaysAhead)),
                 env))

Deleted(cal, event_id, r) ==
    IF ~r.ok THEN Raise(cal, r.err, <<"delete">>)
    ELSE Return(r.cal, [success |-> TRUE, message |-> <<"Event deleted", event_id>>],
                <<"delete">>)

delete_event(cal, kw, env) ==
    IF ~Has(kw, "event_id") THEN Raise(cal, "TypeError", <<>>)
    ELSE Deleted(cal, kw.event_id, Delete(cal, kw.event_id, env))

\* FirstMatch taking the last event with the title instead of the first
FirstMatch_last(events_list, title) ==
    IF \A i \in 1..Len(events_list) : Lower(events_list[i].title) # Lower(title)
    THEN 0
    ELSE CHOOSE i \in 1..Len(events_list) :
            /\ Lower(events_list[i].title) = Lower(title)
            /\ \A j \in (i + 1)..Len(events_list) :
                    Lower(events_list[j].title) # Lower(title)

\* the loop of delete_event_by_title: the index of the first event of
\* events_list whose title is the title, ignoring case; 0 if there is none
FirstMatch(events_list, title) ==
    IF \A i \in 1..Len(events_list) : Lower(events_list[i].title) # Lower(title)
    THEN 0
    ELSE CHOOSE i \in 1..Len(events_list) :
            /\ Lower(events_list[i].title) = Lower(title)
            /\ \A j \in 1..(i - 1) : Lower(events_list[j].title) # Lower(title)

\* lines 192-203: the found event is deleted; a failure is reported
DeleteFound(cal, event, req, deleted) ==
    IF deleted.kind = "raise"
    THEN Return(cal, [success |-> FALSE,
                      message |-> <<"Error deleting event", deleted.err>>],
                req \o deleted.req)
    ELSE Return(deleted.cal, [success |-> TRUE,
                              message |-> <<"Deleted event", event.title>>],
                req \o deleted.req)

\* lines 180-208: the body of the try of delete_event_by_title
ByTitle(cal, title, date, env, listed) ==
    IF listed.kind = "raise" THEN listed
    ELSE IF Len(listed.val) = 0
    THEN Return(cal, [success |-> FALSE, message |-> <<"No events found on", date>>],
                listed.req)
    ELSE IF FirstMatch(listed.val, title) = 0
    THEN Return(cal, [success |-> FALSE,
                      message |-> <<"Could not find an event with title", title, date>>],
                listed.req)
    ELSE DeleteFound(cal, listed.val[FirstMatch(listed.val, title)], listed.req,
                     delete_event(cal,
                        [event_id |-> listed.val[FirstMatch(listed.val, title)].id],
                        env))

\* ByTitleExcept without the except: what the body raised is raised on
ByTitleExcept_missing(r) == r

\* lines 209-214: what the body raised is returned as a failure
ByTitleExcept(r) ==
    IF r.kind = "raise"
    THEN Return(r.cal, [success |-> FALSE, message |-> <<"Error", r.err>>], r.req)
    ELSE r

delete_event_by_title(cal, kw, env) ==
    IF ~Has(kw, "title") THEN Raise(cal, "TypeError", <<>>)
    ELSE ByTitleExcept(
            ByTitle(cal, kw.title, IF Has(kw, "date") THEN kw.date ELSE "today", env,
                    list_events(cal,
                        [date |-> IF Has(kw, "date") THEN kw.date ELSE "today",
                         days_ahead |-> IF Has(kw, "days_ahead") THEN kw.days_ahead
                                        ELSE DefaultDaysAhead],
                        env)))

\* Retitled without the if: the title is assigned also when none is given
Retitled_unguarded(event, kw) ==
    [event EXCEPT !.summary = IF Has(kw, "title") THEN kw.title ELSE ""]

\* if title: event['summary'] = title
Retitled(event, kw) ==
    IF Has(kw, "title") /\ kw.title # "" THEN [event EXCEPT !.summary = kw.title]
    ELSE event

\* if date and time
Moves(kw) ==
    /\ Has(kw, "date") /\ kw.date # ""
    /\ Has(kw, "time") /\ kw.time # ""

\* lines 231-238: the new end, duration_minutes after the new start if that is
\* given and not 0, and else as long after it as the original end, parsed
\* with its offset, is after the original start
EndTime(event, kw, start_time) ==
    IF Has(kw, "duration_minutes") /\ kw.duration_minutes # 0
    THEN start_time + kw.duration_minutes
    ELSE start_time + (parse(event.end.dateTime) - parse(event.start.dateTime))

\* Moved with the duration applied also when no date and time are given: the
\* end is put duration_minutes after the start the event has
Moved_durationApplied(event, kw) ==
    IF Moves(kw)
    THEN [event EXCEPT
            !.start.dateTime = Naive(strptime(kw.date, kw.time).wall),
            !.end.dateTime = Naive(EndTime(event, kw, strptime(kw.date, kw.time).wall))]
    ELSE IF Has(kw, "duration_minutes") /\ kw.duration_minutes # 0
    THEN [event EXCEPT
            !.end.dateTime = [event.start.dateTime EXCEPT
                                !.wall = @ + kw.duration_minutes]]
    ELSE event

\* lines 227-241: start and end are replaced by datetimes without offset
Moved(event, kw) ==
    IF Moves(kw)
    THEN [event EXCEPT
            !.start.dateTime = Naive(strptime(kw.date, kw.time).wall),
            !.end.dateTime = Naive(EndTime(event, kw, strptime(kw.date, kw.time).wall))]
    ELSE event

\* lines 243-253: the update request and what is returned
Submitted(cal, updated) ==
    IF ~updated.ok THEN Raise(cal, updated.err, <<"get", "update">>)
    ELSE Return(updated.cal,
                [id |-> updated.res.id, title |-> updated.res.summary,
                 start |-> updated.res.start.dateTime],
                <<"get", "update">>)

\* lines 221-253: update_event once the event is fetched
Fetched(cal, kw, env, got) ==
    IF ~got.ok THEN Raise(cal, got.err, <<"get">>)
    ELSE IF Moves(kw) /\ ~strptime(kw.date, kw.time).ok
    THEN Raise(cal, "ValueError", <<"get">>)
    ELSE Submitted(cal, Update(cal, kw.event_id, Moved(Retitled(got.res, kw), kw), env))

update_event(cal, kw, env) ==
    IF ~Has(kw, "event_id") THEN Raise(cal, "TypeError", <<>>)
    ELSE Fetched(cal, kw, env, Get(cal, kw.event_id, env))

---------------------------------------------------------------------------
(* Calls of the calendar client *)

Titles == {"Lunch", "lunch"}

\* keyword arguments the calls are made with
CreateInputs ==
    {[title |-> "Lunch", date |-> d, time |-> m] :
        d \in DateStrings, m \in TimeStrings}
    \cup {[title |-> "lunch", date |-> "2024-11-02", time |-> "23:00"],
          [title |-> "lunch", date |-> "2024-11-03", time |-> "00:30",
           duration_minutes |-> 120],
          [title |-> "Lunch", date |-> "2024-11-02", time |-> "23:00",
           duration_minutes |-> 120, description |-> "notes"],
          [title |-> "Lunch", date |-> "tomorrow", time |-> "23:00"],
          [title |-> "Lunch", date |-> "2024-11-02", time |-> "2pm"]}

ListInputs ==
    {[date |-> d] : d \in DateStrings \cup {"today", "tomorrow"}}
    \cup {[date |-> "2024-11-02", days_ahead |-> 2], <<>>}

DeleteInputs == {[event_id |-> i] : i \in 1..MaxEvents}

DeleteByTitleInputs ==
    {[title |-> t, date |-> d] : t \in {"LUNCH", "Gym"}, d \in DateStrings}
    \cup {[title |-> "LUNCH"], [title |-> "LUNCH", date |-> "2024-11-02", days_ahead |-> 2],
          [title |-> "LUNCH", date |-> "tomorrow"]}

UpdateInputs ==
    {[event_id |-> i, title |-> "Gym"] : i \in 1..MaxEvents}
    \cup {[event_id |-> 1, date |-> d, time |-> m] :
            d \in DateStrings, m \in TimeStrings}
    \cup {[event_id |-> 1, date |-> "2024-11-03", time |-> "00:30",
           duration_minutes |-> 120],
          [event_id |-> 1, date |-> "2024-11-03"],
          [event_id |-> 1, time |-> "23:00"],
          [event_id |-> 1, title |-> "Gym", date |-> "2024-11-03"],
          [event_id |-> 1, duration_minutes |-> 120],
          [event_id |-> 1, title |-> "Gym", date |-> "2024-11-03", time |-> "00:30"],
          [event_id |-> 1, date |-> "tomorrow", time |-> "00:30"]}

Cal == [events |-> events, nextId |-> nextId]
Env(fail, tb) == [tz |-> tz, fail |-> fail, tb |-> tb]

\* what the provider does during one call: which request it fails, and how
\* it orders events that start together
Weather(fails) ==
    {Env("none", tb) : tb \in TieBreaks} \cup {Env(f, "asc") : f \in fails}

NoCall == [op |-> "none", kw |-> <<>>, fail |-> "none", kind |-> "return",
           val |-> <<>>, err |-> "", req |-> <<>>]

\* the record of a call: what was called with what, and what came of it
Called(op, kw, fail, r) ==
    [op |-> op, kw |-> kw, fail |-> fail, kind |-> r.kind,
     val |-> IF r.kind = "return" THEN r.val ELSE <<>>,
     err |-> IF r.kind = "raise" THEN r.err ELSE "",
     req |-> r.req]

Did(op, kw, fail, r) ==
    /\ calls < MaxCalls
    /\ calls' = calls + 1
    /\ events' = r.cal.events
    /\ nextId' = r.cal.nextId
    /\ last' = Called(op, kw, fail, r)
    /\ UNCHANGED <<tz, pc, iterations, messages, response, tool_result, sent, final>>

Call_create_event ==
    /\ nextId <= MaxEvents
    /\ \E kw \in CreateInputs, fail \in {"none", "insert"} :
          Did("create_event", kw, fail, create_event(Cal, kw, Env(fail, "asc")))

Call_list_events ==
    \E kw \in ListInputs, env \in Weather({"list"}) :
        Did("list_events", kw, env.fail, list_events(Cal, kw, env))

Call_delete_event ==
    \E kw \in DeleteInputs, fail \in {"none", "delete"} :
        Did("delete_event", kw, fail, delete_event(Cal, kw, Env(fail, "asc")))

Call_delete_event_by_title ==
    \E kw \in DeleteByTitleInputs, env \in Weather({"list", "delete"}) :
        Did("delete_event_by_title", kw, env.fail,
            delete_event_by_title(Cal, kw, env))

Call_update_event ==
    \E kw \in UpdateInputs, fail \in {"none", "get", "update"} :
        Did("update_event", kw, fail, update_event(Cal, kw, Env(fail, "asc")))

Init ==
    /\ events = {}
    /\ nextId = 1
    /\ tz \in SystemZones
    /\ last = NoCall
    /\ calls = 0
    /\ pc = "idle"
    /\ iterations = 0
    /\ messages = <<>>
    /\ response = <<>>
    /\ tool_result = <<>>
    /\ sent = <<>>
    /\ final = <<>>

NextCalendar ==
    \/ Call_create_event
    \/ Call_list_events
    \/ Call_delete_event
    \/ Call_delete_event_by_title
    \/ Call_update_event

SpecCalendar == Init /\ [][NextCalendar]_vars

---------------------------------------------------------------------------
(* The agent, src/agent.py *)

\* the names of the tools declared to the model
CALENDAR_TOOLS == {"create_event", "list_events", "delete_event_by_title"}

\* json.dumps of a tool result: the text of the value
json_dumps(v) == [json |-> v]

\* the names process_tool_call routes to a handler
Routed == {"create_event", "list_events", "delete_event_by_title", "delete_event",
           "update_event"}

\* Dispatch with a last branch that lists events instead of refusing the name
Dispatch_fallback(cal, tool_name, tool_input, env) ==
    CASE tool_name = "create_event" -> create_event(cal, tool_input, env)
      [] tool_name = "list_events" -> list_events(cal, tool_input, env)
      [] tool_name = "delete_event_by_title" -> delete_event_by_title(cal, tool_input, env)
      [] tool_name = "delete_event" -> delete_event(cal, tool_input, env)
      [] tool_name = "update_event" -> update_event(cal, tool_input, env)
      [] OTHER -> list_events(cal, tool_input, env)

\* the if/elif chain of process_tool_call: the handler the name routes to is
\* called with the input as keyword arguments
Dispatch(cal, tool_name, tool_input, env) ==
    CASE tool_name = "create_event" -> create_event(cal, tool_input, env)
      [] tool_name = "list_events" -> list_events(cal, tool_input, env)
      [] tool_name = "delete_event_by_title" -> delete_event_by_title(cal, tool_input, env)
      [] tool_name = "delete_event" -> delete_event(cal, tool_input, env)
      [] tool_name = "update_event" -> update_event(cal, tool_input, env)
      [] OTHER -> Return(cal, [error |-> "Unknown tool: " \o tool_name], <<>>)

\* Caught without the except: what the handler raised is raised on
Caught_reraised(r, called) ==
    IF r.kind = "raise"
    THEN [kind |-> "raise", cal |-> r.cal, err |-> r.err, called |-> called,
          handler |-> r]
    ELSE [kind |-> "return", cal |-> r.cal, val |-> r.val, called |-> called,
          handler |-> r]

\* the try/except of process_tool_call: what the handler raised is returned
\* as an error payload.  handler is the handler's own outcome, called
\* whether a handler was called.
Caught(r, called) ==
    [kind |-> "return", cal |-> r.cal,
     val |-> IF r.kind = "raise" THEN [error |-> r.err] ELSE r.val,
     called |-> called, handler |-> r]

process_tool_call(cal, tool_name, tool_input, env) ==
    Caught(Dispatch(cal, tool_name, tool_input, env), tool_name \in Routed)

\* what the model is asked
user_message == "What's on my calendar today?"

Text(t) == [type |-> "text", text |-> t]
ToolUse(id, call) == [type |-> "tool_use", id |-> id, name |-> call.name, input |-> call.input]

\* the tool calls the model asks for
ToolCalls ==
    {[name |-> "create_event",
      input |-> [title |-> "Lunch", date |-> "2024-11-02", time |-> "23:00"]],
     [name |-> "create_event",
      input |-> [title |-> "Lunch", date |-> "tomorrow", time |-> "noon"]],
     [name |-> "list_events", input |-> [date |-> "today"]],
     [name |-> "delete_event", input |-> [event_id |-> 1]],
     [name |-> "delete_event_by_title", input |-> [title |-> "LUNCH"]],
     [name |-> "update_event", input |-> [event_id |-> 1, title |-> "Gym"]],
     [name |-> "update_event", input |-> [title |-> "Gym"]],
     [name |-> "frobnicate", input |-> <<>>]}

\* responses of the model that ask for a tool
ToolUseResponses ==
    {[stop_reason |-> "tool_use", content |-> <<ToolUse("toolu_A", c)>>] : c \in ToolCalls}
    \cup {[stop_reason |-> "tool_use",
           content |-> <<Text("Let me check."),
                         ToolUse("toolu_A", [name |-> "list_events",
                                             input |-> [date |-> "today"]]),
                         ToolUse("toolu_B", [name |-> "delete_event",
                                             input |-> [event_id |-> 1]])>>]}

\* a response cut off at max_tokens (2048) inside a tool_use block: the API
\* gives stop_reason max_tokens and the content produced so far
TruncatedResponse ==
    [stop_reason |-> "max_tokens",
     content |-> <<Text("Booking your lunch now."),
                   ToolUse("toolu_A",
                           [name |-> "create_event",
                            input |-> [title |-> "Lunch", date |-> "2024-11-02"]])>>]

\* responses of the model after which the loop is left
FinalResponses ==
    {[stop_reason |-> "end_turn", content |-> <<Text("You have lunch at 11pm.")>>],
     [stop_reason |-> "end_turn", content |-> <<>>],
     [stop_reason |-> "end_turn",
      content |-> <<Text("Your lunch is booked."), Text("Anything else?")>>],
     TruncatedResponse}

ModelResponses == ToolUseResponses \cup FinalResponses

\* responses of a model that asks for a tool in every round
LoopingResponses ==
    {[stop_reason |-> "tool_use", content |-> <<ToolUse("toolu_A", c)>>] :
        c \in {[name |-> "list_events", input |-> [date |-> "today"]],
               [name |-> "frobnicate", input |-> <<>>]}}

\* client.messages.create(model, max_tokens, system, tools, messages): the
\* request, and then a response of the model or an error of the API
Request(msgs) == [system |-> Today, tools |-> CALENDAR_TOOLS, messages |-> msgs]

Answered(msgs, r) ==
    /\ sent' = Request(msgs)
    /\ response' = r
    /\ pc' = "loop"
    /\ final' = final

\* Failed with the error of the API caught: the call returns the default text
Failed_swallowed(msgs) ==
    /\ sent' = Request(msgs)
    /\ response' = response
    /\ pc' = "returned"
    /\ final' = [kind |-> "return", val |-> "Done!"]

Failed(msgs) ==
    /\ sent' = Request(msgs)
    /\ response' = response
    /\ pc' = "raised"
    /\ final' = [kind |-> "raise", err |-> "APIError"]

Asked(msgs, responses, apiFails) ==
    \/ \E r \in responses : Answered(msgs, r)
    \/ apiFails /\ Failed(msgs)

\* FirstToolUse taking the last tool_use block of the turn instead
FirstToolUse_last(content) ==
    content[CHOOSE i \in 1..Len(content) :
                /\ content[i].type = "tool_use"
                /\ \A j \in (i + 1)..Len(content) : content[j].type # "tool_use"]

\* next(block for block in response.content if block.type == "tool_use")
FirstToolUse(content) ==
    content[CHOOSE i \in 1..Len(content) :
                /\ content[i].type = "tool_use"
                /\ \A j \in 1..(i - 1) : content[j].type # "tool_use"]

\* chat_with_agent up to the first response of the model
Start(responses, apiFails) ==
    /\ pc = "idle"
    /\ messages' = <<[role |-> "user", content |-> user_message]>>
    /\ iterations' = 0
    /\ Asked(messages', responses, apiFails)
    /\ UNCHANGED <<events, nextId, tz, last, calls, tool_result>>

\* one iteration of the tool loop: the tool is called, the transcript grows
\* by the model's turn and the tool's result, and the model is asked again
Iterate(responses, apiFails, weather, cap) ==
    /\ pc = "loop"
    /\ response.stop_reason = "tool_use"
    /\ iterations < cap
    /\ \E tool_use_block \in {FirstToolUse(response.content)} :
           /\ tool_use_block.name = "create_event" => nextId <= MaxEvents
           /\ \E env \in weather :
                \E p \in {process_tool_call(Cal, tool_use_block.name,
                                            tool_use_block.input, env)} :
                    /\ iterations' = iterations + 1
                    /\ events' = p.cal.events
                    /\ nextId' = p.cal.nextId
                    /\ last' = IF p.called
                               THEN Called(tool_use_block.name, tool_use_block.input,
                                           env.fail, p.handler)
                               ELSE last
                    /\ calls' = IF p.called THEN calls + 1 ELSE calls
                    /\ IF p.kind = "raise"
                       THEN /\ pc' = "raised"
                            /\ final' = [kind |-> "raise", err |-> p.err]
                            /\ UNCHANGED <<messages, response, tool_result, sent>>
                       ELSE /\ tool_result' = p.val
                            /\ messages' = messages \o
                                 <<[role |-> "assistant", content |-> response.content],
                                   [role |-> "user",
                                    content |-> <<[type |-> "tool_result",
                                                   tool_use_id |-> tool_use_block.id,
                                                   content |-> json_dumps(p.val)]>>]>>
                            /\ Asked(messages', responses, apiFails)
    /\ UNCHANGED tz

\* the text of the first block of content that has one, or the default
FirstText(content) ==
    LET texts == {i \in 1..Len(content) : content[i].type = "text"}
    IN IF texts = {} THEN "Done!"
       ELSE content[CHOOSE i \in texts : \A j \in texts : i <= j].text

\* the loop is left and the final response returned
Finish ==
    /\ pc = "loop"
    /\ response.stop_reason # "tool_use"
    /\ pc' = "returned"
    /\ final' = [kind |-> "return", val |-> FirstText(response.content)]
    /\ UNCHANGED <<events, nextId, tz, last, calls, iterations, messages, response,
                   tool_result, sent>>

AllWeather == Weather({"insert", "list", "get", "update", "delete"})

NextAgent ==
    \/ Start(ModelResponses, TRUE)
    \/ Iterate(ModelResponses, TRUE, AllWeather, MaxIterations)
    \/ Finish

SpecAgent == Init /\ [][NextAgent]_vars

NextToolLoop ==
    \/ Start(LoopingResponses, FALSE)
    \/ Iterate(LoopingResponses, FALSE, {Env("none", "asc")}, MaxRounds + 1)

SpecToolLoop == Init /\ [][NextToolLoop]_vars

---------------------------------------------------------------------------
(* Claims about the calendar client *)

Ev(evs, id) == CHOOSE e \in evs : e.id = id

\* the step just taken called op
Stepped(op) == calls' = calls + 1 /\ last'.op = op

\* 00:00 of the day a list query starts at, and of the day it ends at, as
\* instants on the machine's clock
WindowStart(kw) ==
    WallToInstant(tz, (IF Has(kw, "date") /\ kw.date # "today"
                       THEN ParseDate(kw.date) ELSE Today) * MinutesPerDay)
WindowEnd(kw) ==
    WallToInstant(tz, ((IF Has(kw, "date") /\ kw.date # "today"
                        THEN ParseDate(kw.date) ELSE Today)
                       + (IF Has(kw, "days_ahead") THEN kw.days_ahead ELSE 1))
                      * MinutesPerDay)

OneSided(kw) == Has(kw, "date") # Has(kw, "time")

\* C4 as claimed: update_event given a date without a time, or a time without
\* a date, for an event that exists, raises a validation error and sends no
\* update request to the provider.
C4_OneSidedRaises ==
    (last.op = "update_event" /\ OneSided(last.kw) /\ last.fail = "none"
        /\ last.err # "NotFound")
    => (last.kind = "raise" /\ last.err = "ValueError"
        /\ \A i \in 1..Len(last.req) : last.req[i] # "update")

\* C5 as claimed: update_event given date and time and no duration stores
\* the start date+time names and an end as far after it as the original end
\* was after the original start.
C5_DurationPreserved ==
    [][(Stepped("update_event") /\ last'.kind = "return"
        /\ Has(last'.kw, "date") /\ Has(last'.kw, "time")
        /\ ~Has(last'.kw, "duration_minutes"))
       => LET old == Ev(events, last'.kw.event_id)
              new == Ev(events', last'.kw.event_id)
          IN /\ new.start = WallToInstant("America/New_York",
                                strptime(last'.kw.date, last'.kw.time).wall)
             /\ new.end - new.start = old.end - old.start]_vars

\* C6: a call of update_event changes no event but the one it names, and of
\* that one only what it was given: the description never, the title only
\* when a title is given, start and end only when a date or a time is given;
\* given only a title, the title becomes the one given.
C6_PartialUpdate ==
    [][Stepped("update_event")
       => /\ \A e \in events : e.id # last'.kw.event_id => e \in events'
          /\ \A e \in events' : e.id # last'.kw.event_id => e \in events
          /\ \A e \in events : e.id = last'.kw.event_id =>
               \E n \in events' :
                  /\ n.id = e.id
                  /\ n.description = e.description
                  /\ ~Has(last'.kw, "title") => n.summary = e.summary
                  /\ (~Has(last'.kw, "date") /\ ~Has(last'.kw, "time"))
                        => (n.start = e.start /\ n.end = e.end)
                  /\ (DOMAIN last'.kw = {"event_id", "title"} /\ last'.kind = "return")
                        => n.summary = last'.kw.title]_vars

\* C6 is met by a call that retitled an event with a description
C6_Witness ==
    /\ last.op = "update_event" /\ last.kind = "return"
    /\ DOMAIN last.kw = {"event_id", "title"}
    /\ \E e \in events : e.id = last.kw.event_id /\ e.summary = last.kw.title
                         /\ e.description = "notes"

\* the call ended where delete_event_by_title found nothing to delete
NotFoundPath(l) ==
    /\ l.op = "delete_event_by_title" /\ l.kind = "return"
    /\ ~l.val.success
    /\ l.val.message[1] \in {"No events found on", "Could not find an event with title"}

\* C7: delete_event_by_title never raises and returns a record of success
\* and message; a call that finds nothing to delete deletes nothing, and a
\* call with the same arguments right after it returns the same.
C7_NotFoundIdempotent ==
    /\ [](last.op = "delete_event_by_title"
            => last.kind = "return" /\ DOMAIN last.val = {"success", "message"})
    /\ [][(Stepped("delete_event_by_title") /\ NotFoundPath(last'))
            => events' = events]_vars
    /\ [][(NotFoundPath(last) /\ Stepped("delete_event_by_title")
            /\ last'.kw = last.kw /\ last'.fail # "list")
            => (last'.val = last.val /\ events' = events)]_vars

\* C7 is met by a second call that found no match in a calendar with events
C7_Witness ==
    /\ NotFoundPath(last) /\ calls >= 2 /\ events # {}
    /\ last.val.message[1] = "Could not find an event with title"

\* the events a list query over kw selects, with the title given
Matching(evs, kw) ==
    {e \in evs : /\ e.end > WindowStart(kw) /\ e.start < WindowEnd(kw)
                 /\ Lower(e.summary) = Lower(kw.title)}

\* C8: when several events the query selects have the title, ignoring case,
\* delete_event_by_title deletes one of them with the earliest start, and
\* no other event.
C8_EarliestMatchDeleted ==
    [][(Stepped("delete_event_by_title") /\ last'.fail = "none"
        /\ Cardinality(Matching(events, last'.kw)) >= 2)
       => /\ last'.kind = "return" /\ last'.val.success
          /\ \E d \in Matching(events, last'.kw) :
                /\ events' = events \ {d}
                /\ \A m \in Matching(events, last'.kw) : d.start <= m.start]_vars

\* C8 is met by a call that deleted one of two events with the title and left
\* the later one
C8_Witness ==
    /\ last.op = "delete_event_by_title" /\ last.kind = "return" /\ last.val.success
    /\ \E e \in events : Lower(e.summary) = Lower(last.kw.title)
                         /\ e.start < WindowEnd(last.kw) /\ e.end > WindowStart(last.kw)

Starts(val) == [i \in 1..Len(val) |-> parse(val[i].start)]

\* C9 as claimed: list_events returns exactly the events that start at or
\* after 00:00 of the date and before 00:00 of the day days_ahead later,
\* ascending by start.
C9_StartInWindow ==
    (last.op = "list_events" /\ last.kind = "return")
    => /\ {last.val[i].id : i \in 1..Len(last.val)}
            = {e.id : e \in {f \in events : /\ f.start >= WindowStart(last.kw)
                                            /\ f.start < WindowEnd(last.kw)}}
       /\ \A i, j \in 1..Len(last.val) :
            i < j => Starts(last.val)[i] <= Starts(last.val)[j]

\* C9 amended: list_events returns exactly the events that end after 00:00
\* of the date and start before 00:00 of the day days_ahead later (machine
\* time), each once and with its stored start, title and description,
\* ascending by start.
C9_OverlappingWindow ==
    (last.op = "list_events" /\ last.kind = "return")
    => /\ {last.val[i].id : i \in 1..Len(last.val)}
            = {e.id : e \in {f \in events : /\ f.end > WindowStart(last.kw)
                                            /\ f.start < WindowEnd(last.kw)}}
       /\ Len(last.val) = Cardinality({last.val[i].id : i \in 1..Len(last.val)})
       /\ \A i \in 1..Len(last.val) :
            LET e == Ev(events, last.val[i].id)
            IN /\ Starts(last.val)[i] = e.start
               /\ last.val[i].title = e.summary
               /\ last.val[i].description = e.description
       /\ \A i, j \in 1..Len(last.val) :
            i < j => Starts(last.val)[i] <= Starts(last.val)[j]

\* C9 is met by a query over two days that returned two events in order, the
\* first of which started before the first day
C9_Witness ==
    /\ last.op = "list_events" /\ last.kind = "return"
    /\ Has(last.kw, "days_ahead") /\ Len(last.val) = 2
    /\ Starts(last.val)[1] < Starts(last.val)[2]

\* C10 as claimed: list_events for the date right after create_event for
\* that date returns the created event, starting at the instant date and
\* time name in America/New_York.
C10_CreatedIsListed ==
    [][(last.op = "create_event" /\ last.kind = "return"
        /\ Stepped("list_events") /\ last'.kind = "return"
        /\ Has(last'.kw, "date") /\ last'.kw.date = last.kw.date
        /\ ~Has(last'.kw, "days_ahead"))
       => \E i \in 1..Len(last'.val) :
            /\ last'.val[i].id = last.val.id
            /\ parse(last'.val[i].start)
                 = WallToInstant("America/New_York",
                                 strptime(last.kw.date, last.kw.time).wall)]_vars

---------------------------------------------------------------------------
(* Claims about the agent *)

\* C1 as claimed: the tool loop stops after MaxRounds rounds: where more
\* rounds than that have been asked for, chat_with_agent has failed with
\* ToolLoopExceeded.
C1_ToolLoopBounded ==
    iterations > MaxRounds => (pc = "raised" /\ final.err = "ToolLoopExceeded")

\* the step just taken is an iteration of the tool loop
Iterated == pc = "loop" /\ iterations' = iterations + 1

\* C2: when the handler of the tool called in an iteration raises, the
\* iteration goes on: the tool result is the error payload, the transcript
\* grows by the model's turn and a tool-result turn carrying that payload,
\* and the model is asked again with that transcript; chat_with_agent does
\* not end with the handler's error.
C2_ToolFailureFedBack ==
    [][(Iterated /\ calls' = calls + 1 /\ last'.kind = "raise")
       => /\ tool_result' = [error |-> last'.err]
          /\ Len(messages') = Len(messages) + 2
          /\ SubSeq(messages', 1, Len(messages)) = messages
          /\ messages'[Len(messages) + 1] =
                [role |-> "assistant", content |-> response.content]
          /\ messages'[Len(messages) + 2].role = "user"
          /\ messages'[Len(messages) + 2].content[1].type = "tool_result"
          /\ messages'[Len(messages) + 2].content[1].content =
                json_dumps([error |-> last'.err])
          /\ sent'.messages = messages'
          /\ pc' \in {"loop", "raised"}
          /\ pc' = "raised" => final'.err = "APIError"]_vars

\* C2 is met by an iteration whose handler raised and after which the model
\* answered
C2_Witness ==
    /\ pc = "loop" /\ iterations >= 1 /\ calls >= 1
    /\ last.kind = "raise" /\ last.err = "NotFound"
    /\ messages[Len(messages)].content[1].content = json_dumps([error |-> "NotFound"])

\* C3: an iteration whose tool name is none of the five registered names
\* gives the payload {error: "Unknown tool: <name>"}, calls no calendar
\* function and leaves the calendar as it was, and the loop goes on.
C3_UnknownTool ==
    [][(Iterated
        /\ FirstToolUse(response.content).name \notin
              {"create_event", "list_events", "delete_event", "delete_event_by_title",
               "update_event"})
       => /\ tool_result' =
                [error |-> "Unknown tool: " \o FirstToolUse(response.content).name]
          /\ events' = events /\ nextId' = nextId
          /\ calls' = calls /\ last' = last
          /\ pc' = "raised" => final'.err = "APIError"]_vars

\* C3 is met by an iteration that was asked for the tool frobnicate, in a
\* calendar that holds an event
C3_Witness ==
    /\ pc = "loop" /\ iterations >= 2 /\ events # {}
    /\ FirstToolUse(messages[Len(messages) - 1].content).name = "frobnicate"
    /\ messages[Len(messages)].content[1].content =
          json_dumps([error |-> "Unknown tool: frobnicate"])

\* the step just taken ended chat_with_agent with an error
Raised == pc # "raised" /\ pc' = "raised"

\* C11: when a call of the model fails, in the first request or in a
\* re-query, chat_with_agent ends with that error and returns no answer; the
\* calendar is then what the rounds before left, changed by what the tool
\* called in this round did to it: nothing is rolled back.  A step that
\* calls the model ends with the model's response or with the error, never
\* with an answer.
C11_ModelFailurePropagates ==
    [][/\ (pc = "idle" \/ Iterated) => pc' \in {"loop", "raised"}
       /\ Raised
          => /\ final' = [kind |-> "raise", err |-> "APIError"]
             /\ sent'.messages = messages'
             /\ calls' = calls => (events' = events /\ nextId' = nextId)
             /\ calls' # calls =>
                   \E env \in AllWeather :
                       [events |-> events', nextId |-> nextId'] =
                           Dispatch(Cal, last'.op, last'.kw, env).cal]_vars

\* C11 is met by a request whose first round created an event and whose
\* second round called another tool, after which the model call failed
C11_Witness ==
    /\ pc = "raised" /\ final.err = "APIError" /\ iterations = 2
    /\ last.op # "create_event" /\ \E e \in events : e.summary = "Lunch"

\* C12: every request sent to the model, the first and each re-query, offers
\* exactly the five tools create_event, list_events, delete_event,
\* delete_event_by_title and update_event, which are the names the
\* dispatcher routes to a handler.
C12_FiveToolsOffered ==
    pc # "idle"
    => /\ sent.tools = {"create_event", "list_events", "delete_event",
                        "delete_event_by_title", "update_event"}
       /\ sent.tools = Routed

\* C13: an iteration dispatches one tool call, that of the first tool_use
\* block of the model's turn also when the turn holds several: a handler is
\* called at most once, with that block's name and input.  The transcript
\* grows by the model's turn and one tool-result turn that carries that
\* block's id; in no step is an earlier turn changed or removed, and outside
\* the iterations the transcript of a request stays as it is.
C13_OneCallPerIteration ==
    [][/\ Iterated
          => \E i \in 1..Len(response.content) :
                /\ response.content[i].type = "tool_use"
                /\ \A j \in 1..(i - 1) : response.content[j].type # "tool_use"
                /\ calls' =
                      IF response.content[i].name \in Routed THEN calls + 1 ELSE calls
                /\ calls' # calls => /\ last'.op = response.content[i].name
                                     /\ last'.kw = response.content[i].input
                /\ messages' = messages \o
                      <<[role |-> "assistant", content |-> response.content],
                        [role |-> "user",
                         content |-> <<[type |-> "tool_result",
                                        tool_use_id |-> response.content[i].id,
                                        content |-> json_dumps(tool_result')]>>]>>
       /\ (pc # "idle" /\ ~Iterated) => messages' = messages
       /\ pc # "idle" => /\ Len(messages') >= Len(messages)
                         /\ SubSeq(messages', 1, Len(messages)) = messages]_vars

\* C13 is met by an iteration on a turn of the model that held two tool_use
\* blocks, list_events and then delete_event of event 1, in a calendar that
\* held event 1
C13_Witness ==
    /\ pc = "loop" /\ iterations = 2
    /\ Len(messages[Len(messages) - 1].content) = 3
    /\ messages[Len(messages)].content[1].tool_use_id = "toolu_A"
    /\ last.op = "list_events" /\ calls = 2
    /\ \E e \in events : e.id = 1

\* whether a turn of the model holds a tool_use block
RequestsTool(content) == \E i \in 1..Len(content) : content[i].type = "tool_use"

\* C14: the loop ends at the first response of the model that holds no tool
\* invocation: an iteration is run only on a response that holds one, and on
\* a response that holds none chat_with_agent returns, calling no tool, the
\* first text of that response, or "Done!" when it has no text.  A response
\* that asks for a tool is never the one the answer is taken from.
C14_EndsAtFirstToolFreeResponse ==
    [][/\ Iterated => RequestsTool(response.content)
       /\ (pc = "loop" /\ pc' = "returned")
          => /\ ~RequestsTool(response.content)
             /\ UNCHANGED <<events, nextId, calls, last, iterations, messages>>
             /\ final'.kind = "return"
             /\ final'.val =
                   IF \A i \in 1..Len(response.content) :
                          response.content[i].type # "text"
                   THEN "Done!"
                   ELSE response.content[
                            CHOOSE i \in 1..Len(response.content) :
                                /\ response.content[i].type = "text"
                                /\ \A j \in 1..(i - 1) :
                                       response.content[j].type # "text"].text]_vars

\* the arguments give a duration and neither a date nor a time
DurationOnly(kw) ==
    /\ Has(kw, "duration_minutes") /\ Has(kw, "event_id")
    /\ ~Has(kw, "date") /\ ~Has(kw, "time")

\* C15: update_event given duration_minutes and neither date nor time, for an
\* event that exists, leaves the stored start and end of the event as they
\* were, whatever the duration given, and still sends the update request
\* after fetching the event; when the provider accepts it the call returns
\* the event's id and unchanged start.
C15_DurationAloneIgnored ==
    [][(Stepped("update_event") /\ DurationOnly(last'.kw)
        /\ \E e \in events : e.id = last'.kw.event_id)
       => /\ \A e \in events : e.id = last'.kw.event_id =>
                \E n \in events' : n.id = e.id /\ n.start = e.start /\ n.end = e.end
          /\ last'.fail # "get" => last'.req = <<"get", "update">>
          /\ last'.fail \notin {"get", "update"} =>
                /\ last'.kind = "return"
                /\ last'.val.id = last'.kw.event_id
                /\ parse(last'.val.start) = Ev(events, last'.kw.event_id).start]_vars

\* C15 is met by a call that gave 120 minutes for an event that lasts 60 and
\* still does after the call returned
C15_Witness ==
    /\ last.op = "update_event" /\ last.kind = "return" /\ DurationOnly(last.kw)
    /\ last.req = <<"get", "update">>
    /\ \E e \in events : /\ e.id = last.kw.event_id
                         /\ e.end - e.start # last.kw.duration_minutes

=============================================================================
